---- MODULE Spec2Model ----
(***************************************************************************)
(* Deployment workflow engine of the IoMt backend.                         *)
(*                                                                         *)
(* Two parts share this module:                                            *)
(*   - the deployment documents of the "deployments" collection and the    *)
(*     DeploymentService handlers that mutate them (Spec); sequences of    *)
(*     step updates with one call of history (SpecRepeat); two             *)
(*     interleaved step updates (SpecConc); the status aggregator on its   *)
(*     own (SpecAggregator);                                               *)
(*   - the template-method skeleton DeploymentTemplate.execute_deployment  *)
(*     with its factory and DeploymentTemplateService (SpecTemplate).      *)
(*                                                                         *)
(* Status strings of the source are written in English here:               *)
(*   "未开始" NotStarted, "进行中" InProgress, "已完成" Completed,         *)
(*   "失败" Failed, "已创建" Created; log levels "信息" Info, "错误" Error;*)
(*   type tags "标准部署" Standard, "紧急部署" Emergency,                  *)
(*   "训练部署" Training.                                                  *)
(***************************************************************************)
EXTENDS Integers, Sequences, FiniteSets, TLC

VARIABLES
    deployments,   \* the "deployments" collection: id -> document or NoDoc
    now,           \* last value datetime.now(UTC) returned (non-decreasing)
    ret,           \* what the last DeploymentService call returned
    aggCall,       \* the aggregator invocation made by the last call
    calls,         \* number of service calls handled so far
    templates,     \* the "deployment_templates" collection
    inst,          \* the instance execute_deployment was last called on
    tpc,           \* position of the request inside execute_deployment
    hookCalls,     \* phases whose hook was invoked by the current run
    raised,        \* the exception a hook raised in the current run
    result,        \* the dictionary execute_deployment returned
    tret,          \* what the last DeploymentTemplateService call returned
    uuids,         \* number of instances constructed so far (uuid4 source)
    workers,       \* concurrent update_step_status requests: locals, position
    events,        \* the reads and writes of the concurrent requests, in order
    prev           \* what the call before the last returned (SpecRepeat)

----------------------------------------------------------------------------
(* Bounds of the model *)

MaxCalls == 3
MaxInstances == 3

----------------------------------------------------------------------------
(* Values *)

None == "None"
NoTime == -1
NoDoc == [missing |-> TRUE]
NullId == "null"

NotStarted == "NotStarted"
InProgress == "InProgress"
Completed == "Completed"
Failed == "Failed"
StepStatuses == {NotStarted, InProgress, Completed, Failed}

DeploymentIds == {"d1", "d2"}
StoreIds == DeploymentIds \cup {NullId}
StepNames == {"a", "b", "c"}
RequestedNames == StepNames \cup {"zz"}
Operators == {"op1"}
Remarks == {None, "", "r1"}
\* datetime.now(UTC): every read is later than the reads of earlier calls
\* (microsecond resolution, a database round trip between two handlers).
Clock == {now + 1}

StepItemDTO(name, status, operator, remark) ==
    [name |-> name, status |-> status, started_at |-> NoTime,
     ended_at |-> NoTime, operator |-> operator, remark |-> remark]

FreshStep(name) == StepItemDTO(name, NotStarted, "admin", None)

SeedDocument(names) ==
    [mission_id |-> "mission_001",
     steps |-> [i \in 1..Len(names) |-> FreshStep(names[i])],
     status |-> NotStarted,
     feedbacks |-> <<>>,
     is_deleted |-> FALSE]

----------------------------------------------------------------------------
(* Repository / MongoHandler *)

get_by_id(db, id) == db[id]

\* $set of one field on the document with this _id; no document, no write.
update(db, id, field, value) ==
    IF db[id] = NoDoc THEN db
    ELSE [db EXCEPT ![id] = [@ EXCEPT ![field] = value]]

modified_count(db, db2) == IF db = db2 THEN 0 ELSE 1

convert_to_dto(doc, id) ==
    [id |-> id, mission_id |-> doc.mission_id, steps |-> doc.steps,
     status |-> doc.status, feedbacks |-> doc.feedbacks,
     is_deleted |-> doc.is_deleted]

----------------------------------------------------------------------------
(* DeploymentService._update_deployment_status_based_on_steps *)

CountStatus(steps, st) ==
    Cardinality({i \in DOMAIN steps : steps[i].status = st})

\* Variant: a completed step alone does not count as progress.
new_status_no_partial(steps) ==
    LET total_steps == Len(steps)
        completed_steps == CountStatus(steps, Completed)
        failed_steps == CountStatus(steps, Failed)
        in_progress_steps == CountStatus(steps, InProgress)
    IN  IF failed_steps > 0 THEN Failed
        ELSE IF completed_steps = total_steps THEN Completed
        ELSE IF in_progress_steps > 0 THEN InProgress
        ELSE NotStarted

\* Variant: only the last step is looked at for a failure.
new_status_last_failed(steps) ==
    LET total_steps == Len(steps)
        completed_steps == CountStatus(steps, Completed)
        in_progress_steps == CountStatus(steps, InProgress)
    IN  IF steps[Len(steps)].status = Failed THEN Failed
        ELSE IF completed_steps = total_steps THEN Completed
        ELSE IF in_progress_steps > 0 \/ completed_steps > 0 THEN InProgress
        ELSE NotStarted

new_status(steps) ==
    LET total_steps == Len(steps)
        completed_steps == CountStatus(steps, Completed)
        failed_steps == CountStatus(steps, Failed)
        in_progress_steps == CountStatus(steps, InProgress)
    IN  IF failed_steps > 0 THEN Failed
        ELSE IF completed_steps = total_steps THEN Completed
        ELSE IF in_progress_steps > 0 \/ completed_steps > 0 THEN InProgress
        ELSE NotStarted

\* Variant: the guard on the empty list is missing.
aggregator_writes_always(steps) == TRUE

\* `if not steps: return`: an empty list ends the call before any write.
aggregator_writes(steps) == steps # <<>>

update_deployment_status_based_on_steps(db, id, steps) ==
    IF aggregator_writes(steps)
    THEN update(db, id, "status", new_status(steps))
    ELSE db

NoAggCall == [called |-> FALSE]

\* The aggregator call of a handler: its arguments, whether it wrote, and
\* the status the document carries when it returns.
AggCallOf(db, id, steps) ==
    LET db1 == update_deployment_status_based_on_steps(db, id, steps)
    IN  [called |-> TRUE, id |-> id, steps |-> steps,
         wrote |-> aggregator_writes(steps), status |-> db1[id].status]

----------------------------------------------------------------------------
(* DeploymentService.update_step_status *)

\* Variant: a name that matches no step falls on the first step.
FirstMatch_or_first(steps, step_name) ==
    IF \E i \in DOMAIN steps : steps[i].name = step_name
    THEN CHOOSE i \in DOMAIN steps :
            /\ steps[i].name = step_name
            /\ \A j \in DOMAIN steps : steps[j].name = step_name => i <= j
    ELSE IF steps # <<>> THEN 1 ELSE 0

\* Variant: of several steps carrying the name, the last one is taken.
FirstMatch_last(steps, step_name) ==
    IF \E i \in DOMAIN steps : steps[i].name = step_name
    THEN CHOOSE i \in DOMAIN steps :
            /\ steps[i].name = step_name
            /\ \A j \in DOMAIN steps : steps[j].name = step_name => j <= i
    ELSE 0

\* for step in steps: if step.get("name") == step_name: ...; break
FirstMatch(steps, step_name) ==
    IF \E i \in DOMAIN steps : steps[i].name = step_name
    THEN CHOOSE i \in DOMAIN steps :
            /\ steps[i].name = step_name
            /\ \A j \in DOMAIN steps : steps[j].name = step_name => i <= j
    ELSE 0

\* `if step_data.remark:` is false for None and for the empty string.
Truthy(str) == str # None /\ str # ""

\* Variant: a move to Completed stamps started_at even when it is set.
ApplyTimestamps_backfill(step, status, t) ==
    IF status = InProgress /\ step.started_at = NoTime
    THEN [step EXCEPT !.started_at = t]
    ELSE IF status = Completed
    THEN [step EXCEPT !.started_at = t, !.ended_at = t]
    ELSE step

\* Variant: started_at is stamped on every move to InProgress.
ApplyTimestamps_restart(step, status, t) ==
    IF status = InProgress
    THEN [step EXCEPT !.started_at = t]
    ELSE IF status = Completed
    THEN [step EXCEPT !.started_at = IF @ = NoTime THEN t ELSE @,
                      !.ended_at = t]
    ELSE step

\* Variant: a move to Failed closes the step by stamping ended_at.
ApplyTimestamps_failed_end(step, status, t) ==
    IF status = InProgress /\ step.started_at = NoTime
    THEN [step EXCEPT !.started_at = t]
    ELSE IF status = Completed
    THEN [step EXCEPT !.started_at = IF @ = NoTime THEN t ELSE @,
                      !.ended_at = t]
    ELSE IF status = Failed
    THEN [step EXCEPT !.ended_at = t]
    ELSE step

ApplyTimestamps(step, status, t) ==
    IF status = InProgress /\ step.started_at = NoTime
    THEN [step EXCEPT !.started_at = t]
    ELSE IF status = Completed
    THEN [step EXCEPT !.started_at = IF @ = NoTime THEN t ELSE @,
                      !.ended_at = t]
    ELSE step

\* Variant: a step that is Completed or Failed keeps its status.
ApplyStepUpdate_no_backward(step, status, operator, remark, t) ==
    ApplyTimestamps(
        [step EXCEPT !.status = IF @ \in {Completed, Failed} THEN @
                                ELSE status,
                     !.operator = operator,
                     !.remark = IF Truthy(remark) THEN remark ELSE @],
        status, t)

ApplyStepUpdate(step, status, operator, remark, t) ==
    ApplyTimestamps(
        [step EXCEPT !.status = status,
                     !.operator = operator,
                     !.remark = IF Truthy(remark) THEN remark ELSE @],
        status, t)

\* What a handler returned: "ok" with the DTO read back, "none" (None or
\* False, a 404 at the route) or "error" (an exception left the handler).
\* req is the StepUpdateDTO of an update_step_status call that found its
\* step.
NoReq == [step_name |-> None, status |-> None, operator |-> None,
          remark |-> None]

StepUpdateDTO(step_name, status, operator, remark) ==
    [step_name |-> step_name, status |-> status, operator |-> operator,
     remark |-> remark]

Result(op, id, res, dto) ==
    [op |-> op, id |-> id, result |-> res, dto |-> dto, req |-> NoReq]

\* Variant: the aggregator is given the steps as stored, before the change.
PersistStepUpdate_stale(db, id, steps) ==
    update(update_deployment_status_based_on_steps(db, id, db[id].steps),
           id, "steps", steps)

\* Variant: the step array is saved and the aggregator is not run.
PersistStepUpdate_no_aggregate(db, id, steps) ==
    update(db, id, "steps", steps)

\* Lines 98-105: the aggregator writes the status, then the step array is
\* written, then the document is read back.
PersistStepUpdate(db, id, steps) ==
    update(update_deployment_status_based_on_steps(db, id, steps),
           id, "steps", steps)

update_step_status(id, step_name, status, operator, remark, t) ==
    LET deployment == get_by_id(deployments, id)
        idx == IF deployment = NoDoc THEN 0
               ELSE FirstMatch(deployment.steps, step_name)
    IN  IF idx = 0
        THEN /\ ret' = Result("update_step_status", id, "none", NoDoc)
             /\ aggCall' = NoAggCall
             /\ UNCHANGED <<deployments, now>>
        ELSE LET steps == [deployment.steps EXCEPT
                              ![idx] = ApplyStepUpdate(@, status, operator,
                                                       remark, t)]
                 db2 == PersistStepUpdate(deployments, id, steps)
             IN  /\ deployments' = db2
                 /\ now' = t
                 /\ aggCall' = AggCallOf(deployments, id, steps)
                 /\ ret' = [Result("update_step_status", id, "ok",
                                   convert_to_dto(get_by_id(db2, id), id))
                            EXCEPT !.req = StepUpdateDTO(step_name, status,
                                                         operator, remark)]

UpdateStepStatus ==
    /\ calls < MaxCalls
    /\ calls' = calls + 1
    /\ \E id \in DeploymentIds, step_name \in RequestedNames,
       status \in StepStatuses, operator \in Operators,
       remark \in Remarks, t \in Clock :
        update_step_status(id, step_name, status, operator, remark, t)

----------------------------------------------------------------------------
(* DeploymentService.update_deployment *)

\* A field of DeploymentUpdateDTO left at its default None: the status as
\* the string None, the step list as the empty option.
Nothing == <<>>
Some(v) == <<v>>
IsSome(opt) == Len(opt) = 1

\* Step lists a caller supplies: fresh steps, or no steps at all.
SuppliedStepLists ==
    {<<>>} \cup {[i \in 1..Len(l) |-> FreshStep(l[i])] :
                    l \in {<<"a">>, <<"a", "b">>}}

update_deployment(id, status, steps) ==
    LET existing == get_by_id(deployments, id)
        db1 == IF status # None
               THEN update(deployments, id, "status", status)
               ELSE deployments
        db2 == IF IsSome(steps) THEN update(db1, id, "steps", steps[1])
               ELSE db1
    IN  /\ aggCall' = NoAggCall
        /\ UNCHANGED now
        /\ IF existing = NoDoc
           THEN /\ ret' = Result("update_deployment", id, "none", NoDoc)
                /\ UNCHANGED deployments
           ELSE /\ deployments' = db2
                /\ ret' = Result("update_deployment", id, "ok",
                                 convert_to_dto(get_by_id(db2, id), id))

UpdateDeployment ==
    /\ calls < MaxCalls
    /\ calls' = calls + 1
    /\ \E id \in DeploymentIds, status \in StepStatuses \cup {None},
       steps \in {Some(l) : l \in SuppliedStepLists} \cup {Nothing} :
        update_deployment(id, status, steps)

----------------------------------------------------------------------------
(* DeploymentService.add_feedback, DeploymentRepository.add_feedback *)

FeedbackContents == {"f1"}
FeedbackAuthors == {"u1"}

\* Variant: the new item is stored with $set in place of $push.
add_feedback_replace(id, content, feedback_by, t) ==
    LET existing == get_by_id(deployments, id)
        feedback_item == [content |-> content, feedback_by |-> feedback_by,
                          feedback_at |-> t]
        db2 == update(deployments, id, "feedbacks", <<feedback_item>>)
    IN  /\ aggCall' = NoAggCall
        /\ IF existing = NoDoc
           THEN /\ ret' = Result("add_feedback", id, "none", NoDoc)
                /\ UNCHANGED <<deployments, now>>
           ELSE /\ deployments' = db2
                /\ now' = t
                /\ ret' = Result("add_feedback", id, "ok",
                                 convert_to_dto(get_by_id(db2, id), id))

add_feedback(id, content, feedback_by, t) ==
    LET existing == get_by_id(deployments, id)
        feedback_item == [content |-> content, feedback_by |-> feedback_by,
                          feedback_at |-> t]
        db2 == update(deployments, id, "feedbacks",
                      Append(existing.feedbacks, feedback_item))
    IN  /\ aggCall' = NoAggCall
        /\ IF existing = NoDoc
           THEN /\ ret' = Result("add_feedback", id, "none", NoDoc)
                /\ UNCHANGED <<deployments, now>>
           ELSE /\ deployments' = db2
                /\ now' = t
                /\ ret' = Result("add_feedback", id, "ok",
                                 convert_to_dto(get_by_id(db2, id), id))

AddFeedback ==
    /\ calls < MaxCalls
    /\ calls' = calls + 1
    /\ \E id \in DeploymentIds, content \in FeedbackContents,
       feedback_by \in FeedbackAuthors, t \in Clock :
        add_feedback(id, content, feedback_by, t)

----------------------------------------------------------------------------
(* DeploymentService.delete_deployment: soft delete *)

delete_deployment(id) ==
    LET db2 == update(deployments, id, "is_deleted", TRUE)
    IN  /\ deployments' = db2
        /\ aggCall' = NoAggCall
        /\ UNCHANGED now
        /\ ret' = Result("delete_deployment", id,
                         IF modified_count(deployments, db2) > 0
                         THEN "ok" ELSE "none", NoDoc)

DeleteDeployment ==
    /\ calls < MaxCalls
    /\ calls' = calls + 1
    /\ \E id \in DeploymentIds : delete_deployment(id)

----------------------------------------------------------------------------
(* DeploymentService.create_deployment                                     *)
(*                                                                         *)
(* DomainFactory.create_deployment builds a StepItem from the dump         *)
(* of a StepItemDTO.  StepItem requires start_at and end_at, which the     *)
(* dump (started_at, ended_at) never carries, so a non-empty step list     *)
(* raises a validation error before anything is stored.  With no steps the *)
(* Deployment is dumped by alias with "_id": None and inserted under that  *)
(* null _id (a second insert is a duplicate key, swallowed by insert_one); *)
(* the read back by id then raises, so the call never returns a DTO.       *)
(***************************************************************************)

create_deployment(mission_id, steps, status) ==
    /\ aggCall' = NoAggCall
    /\ UNCHANGED now
    /\ ret' = Result("create_deployment", NullId, "error", NoDoc)
    /\ IF steps = <<>> /\ deployments[NullId] = NoDoc
       THEN deployments' =
                [deployments EXCEPT ![NullId] =
                    [mission_id |-> mission_id, steps |-> <<>>,
                     status |-> status, feedbacks |-> <<>>,
                     is_deleted |-> FALSE]]
       ELSE UNCHANGED deployments

CreateDeployment ==
    /\ calls < MaxCalls
    /\ calls' = calls + 1
    /\ \E steps \in SuppliedStepLists, status \in {NotStarted, InProgress} :
        create_deployment("mission_002", steps, status)

----------------------------------------------------------------------------
(* DeploymentTemplate: the template-method skeleton and its variants *)

\* Of an instance the model keeps the fields the skeleton reads or writes;
\* commander, target_location, units, equipments, description and the
\* timestamps are carried through unchanged by the source and left out.
\* A log message is a tuple naming what was logged; a hook's payload is the
\* pair of its class and key.

Created == "Created"
Info == "Info"
Error == "Error"

StandardTag == "Standard"
EmergencyTag == "Emergency"
TrainingTag == "Training"
TypeTags == {StandardTag, EmergencyTag, TrainingTag, "Unknown"}

NoClass == "NoClass"
Classes == {"StandardDeployment", "EmergencyDeployment", "TrainingDeployment"}

PhaseNames == <<"prepare", "allocate_resources", "perform_deployment",
                "verify_deployment", "finalize">>
PhaseKeys == <<"preparation_details", "resource_allocation",
               "deployment_execution", "verification_results",
               "finalization">>
Phases == DOMAIN PhaseNames

\* A Python dict: a function whose domain is the set of keys present.
EmptyDict == <<>>
DictSet(dict, upd) ==
    [k \in DOMAIN dict \cup DOMAIN upd |->
        IF k \in DOMAIN upd THEN upd[k] ELSE dict[k]]

\* A stored value that is a list, and one that is an integer.
PyList(l) == [list |-> l]
PyInt(n) == [int |-> n]

\* A factory that falls back to the standard variant for an unknown tag.
FactoryClass_default(deployment_type) ==
    IF deployment_type = EmergencyTag THEN "EmergencyDeployment"
    ELSE IF deployment_type = TrainingTag THEN "TrainingDeployment"
    ELSE "StandardDeployment"

\* DeploymentTemplateFactory.create_deployment: the class of a type tag.
FactoryClass(deployment_type) ==
    IF deployment_type = StandardTag THEN "StandardDeployment"
    ELSE IF deployment_type = EmergencyTag THEN "EmergencyDeployment"
    ELSE IF deployment_type = TrainingTag THEN "TrainingDeployment"
    ELSE NoClass

get_deployment_type(cls) ==
    IF cls = "StandardDeployment" THEN StandardTag
    ELSE IF cls = "EmergencyDeployment" THEN EmergencyTag
    ELSE TrainingTag

StepsTotal == 5

\* DeploymentTemplate.__init__, and EmergencyDeployment.__init__ on top of
\* it.  The services pass neither emergency_level nor response_time, so
\* kwargs.get falls back to its defaults and overwrites what the supplied
\* attributes carry under these two keys.
BaseInit(cls, attributes, uuid) ==
    [cls |-> cls, id |-> uuid, name |-> "north",
     attributes |-> attributes, status |-> Created, current_step |-> 0,
     steps_total |-> StepsTotal, steps_completed |-> <<>>, logs |-> <<>>]

Construct(cls, attributes, uuid) ==
    IF cls = "EmergencyDeployment"
    THEN [BaseInit(cls, attributes, uuid) EXCEPT
            !.attributes = DictSet(@, [emergency_level |-> "High",
                                       response_time_required |-> "2h"])]
    ELSE BaseInit(cls, attributes, uuid)

to_dict(i) ==
    [id |-> i.id, name |-> i.name, type |-> get_deployment_type(i.cls),
     attributes |-> i.attributes, status |-> i.status,
     current_step |-> i.current_step, steps_total |-> i.steps_total,
     steps_completed |-> PyList(i.steps_completed), logs |-> i.logs]

\* A _log_step that stamps the entry with the step about to be reached.
log_step_next(i, message, level) ==
    [i EXCEPT !.logs = Append(@, [step |-> i.current_step + 1,
                                  message |-> message, level |-> level])]

log_step(i, message, level) ==
    [i EXCEPT !.logs = Append(@, [step |-> i.current_step,
                                  message |-> message, level |-> level])]

\* A _complete_step that records the step without advancing to it.
complete_step_no_advance(i) ==
    [i EXCEPT !.steps_completed = Append(@, i.current_step + 1)]

complete_step(i) ==
    [i EXCEPT !.current_step = @ + 1,
              !.steps_completed = Append(@, i.current_step + 1)]

\* A hook that writes no log entry of its own.
HookLog_silent(i, k) == i

\* The hook of phase k of a variant: a log entry of its own, then its
\* payload under the key of the phase.
HookLog(i, k) == log_step(i, <<i.cls, PhaseNames[k]>>, Info)

HookPayload(i, k) ==
    [i EXCEPT !.attributes =
        DictSet(@, [key \in {PhaseKeys[k]} |-> <<i.cls, PhaseKeys[k]>>])]

Hook(i, k) == HookPayload(HookLog(i, k), k)

\* The dictionaries execute_deployment returns (lines 97-104, 112-120).
SuccessResult(i) ==
    [id |-> i.id, name |-> i.name, status |-> i.status,
     steps_completed |-> PyInt(Len(i.steps_completed)),
     steps_total |-> i.steps_total]

\* A failure result that leaves the error message out.
FailureResult_no_error(i, e) ==
    [id |-> i.id, name |-> i.name, status |-> i.status,
     steps_completed |-> PyInt(Len(i.steps_completed)),
     steps_total |-> i.steps_total]

FailureResult(i, e) ==
    [id |-> i.id, name |-> i.name, status |-> i.status, error |-> e,
     steps_completed |-> PyInt(Len(i.steps_completed)),
     steps_total |-> i.steps_total]

NoInst == [missing |-> TRUE]
NoRaise == [phase |-> 0, message |-> None]
At(pos, k) == [at |-> pos, phase |-> k]
Idle == At("idle", 0)

ErrorMessages == {"boom"}

\* self._log_step("开始部署流程")
T_Start ==
    /\ tpc = At("start", 0)
    /\ inst' = log_step(inst, <<"start">>, Info)
    /\ tpc' = At("log", 1)
    /\ UNCHANGED <<templates, hookCalls, raised, result, tret, uuids>>

\* self._log_step("k. <phase>")
T_PhaseLog ==
    /\ tpc.at = "log"
    /\ inst' = log_step(inst, <<"phase", PhaseNames[tpc.phase]>>, Info)
    /\ tpc' = At("hook", tpc.phase)
    /\ UNCHANGED <<templates, hookCalls, raised, result, tret, uuids>>

\* The hook of the phase runs to its end.
T_HookReturns ==
    /\ tpc.at = "hook"
    /\ inst' = Hook(inst, tpc.phase)
    /\ hookCalls' = Append(hookCalls, tpc.phase)
    /\ tpc' = At("complete", tpc.phase)
    /\ UNCHANGED <<templates, raised, result, tret, uuids>>

\* A skeleton that catches the exception of a hook and goes on with the
\* phase.
T_HookRaises_swallowed ==
    /\ tpc.at = "hook"
    /\ \E e \in ErrorMessages :
          raised' = [phase |-> tpc.phase, message |-> e]
    /\ hookCalls' = Append(hookCalls, tpc.phase)
    /\ tpc' = At("complete", tpc.phase)
    /\ UNCHANGED <<templates, inst, result, tret, uuids>>

\* The hook of the phase raises: on entry, or after its own log entry.
T_HookRaises ==
    /\ tpc.at = "hook"
    /\ \E e \in ErrorMessages, logged \in BOOLEAN :
          /\ inst' = IF logged THEN HookLog(inst, tpc.phase) ELSE inst
          /\ raised' = [phase |-> tpc.phase, message |-> e]
    /\ hookCalls' = Append(hookCalls, tpc.phase)
    /\ tpc' = At("except", tpc.phase)
    /\ UNCHANGED <<templates, result, tret, uuids>>

\* Variant of the skeleton's phase sequencing that jumps over the phase
\* following the one just completed.
T_CompleteStep_skip ==
    /\ tpc.at = "complete"
    /\ inst' = complete_step(inst)
    /\ tpc' = IF tpc.phase >= Len(PhaseNames) - 1 THEN At("finish", 0)
              ELSE At("log", tpc.phase + 2)
    /\ UNCHANGED <<templates, hookCalls, raised, result, tret, uuids>>

\* self._complete_step(), then on to the next phase or to the end.
T_CompleteStep ==
    /\ tpc.at = "complete"
    /\ inst' = complete_step(inst)
    /\ tpc' = IF tpc.phase = Len(PhaseNames) THEN At("finish", 0)
              ELSE At("log", tpc.phase + 1)
    /\ UNCHANGED <<templates, hookCalls, raised, result, tret, uuids>>

\* Lines 90-104: status, completion log entry, result.
T_Finish ==
    /\ tpc.at = "finish"
    /\ LET done == log_step([inst EXCEPT !.status = Completed],
                            <<"finished">>, Info)
       IN  /\ inst' = done
           /\ result' = SuccessResult(done)
    /\ tpc' = At("returned", 0)
    /\ UNCHANGED <<templates, hookCalls, raised, tret, uuids>>

\* An except branch that undoes the progress recorded by the phases that
\* completed before the failure.
T_Except_rollback ==
    /\ tpc.at = "except"
    /\ LET failed == log_step([inst EXCEPT !.status = Failed,
                                           !.current_step = 0,
                                           !.steps_completed = <<>>],
                              <<"failed", raised.message>>, Error)
       IN  /\ inst' = failed
           /\ result' = FailureResult(failed, raised.message)
    /\ tpc' = At("returned", 0)
    /\ UNCHANGED <<templates, hookCalls, raised, tret, uuids>>

\* Lines 106-120: the except branch.
T_Except ==
    /\ tpc.at = "except"
    /\ LET failed == log_step([inst EXCEPT !.status = Failed],
                              <<"failed", raised.message>>, Error)
       IN  /\ inst' = failed
           /\ result' = FailureResult(failed, raised.message)
    /\ tpc' = At("returned", 0)
    /\ UNCHANGED <<templates, hookCalls, raised, tret, uuids>>

----------------------------------------------------------------------------
(* DeploymentTemplateService and the template methods of the repository *)

TemplateIds == {"t1", "t2"}

SuppliedAttributes ==
    {EmptyDict, [priority |-> "High", emergency_level |-> "Low"]}

\* DeploymentTemplateDTO declares steps_completed as a list of integers.
DtoValid(doc) == "list" \in DOMAIN doc.steps_completed

TResult(op, id, req, res, dto) ==
    [op |-> op, id |-> id, req |-> req, result |-> res, dto |-> dto]

Reply(op, id, req, doc) ==
    IF DtoValid(doc) THEN TResult(op, id, req, "ok", [doc EXCEPT !.id = id])
    ELSE TResult(op, id, req, "error", NoDoc)

create_deployment_template(id, type, attributes) ==
    LET cls == FactoryClass(type)
        deployment_template == Construct(cls, attributes, uuids + 1)
    IN  IF cls = NoClass
        THEN /\ tret' = TResult("create_deployment_template", None, type,
                                "unsupported_type", NoDoc)
             /\ UNCHANGED <<templates, uuids>>
        ELSE /\ templates[id] = NoDoc
             /\ uuids < MaxInstances
             /\ uuids' = uuids + 1
             /\ templates' = [templates EXCEPT
                                ![id] = to_dict(deployment_template)]
             /\ tret' = Reply("create_deployment_template", id, type,
                              to_dict(deployment_template))

TS_CreateTemplate ==
    /\ tpc = Idle
    /\ \E id \in TemplateIds, type \in TypeTags,
          attributes \in SuppliedAttributes :
            create_deployment_template(id, type, attributes)
    /\ UNCHANGED <<inst, tpc, hookCalls, raised, result>>

\* Variant: the instance takes up the status and the position the record
\* holds.
TS_ExecuteBegin_resume ==
    /\ tpc = Idle
    /\ \E id \in TemplateIds :
          LET template == templates[id]
          IN  IF template = NoDoc
              THEN /\ tret' = TResult("execute_deployment", id, None,
                                      "not_found", NoDoc)
                   /\ UNCHANGED <<inst, tpc, uuids, hookCalls, raised,
                                  result>>
              ELSE /\ uuids < MaxInstances
                   /\ uuids' = uuids + 1
                   /\ inst' = [Construct(FactoryClass(template.type),
                                         template.attributes, uuids + 1)
                                EXCEPT !.status = template.status,
                                       !.current_step = template.current_step]
                   /\ tpc' = At("start", 0)
                   /\ hookCalls' = <<>>
                   /\ raised' = NoRaise
                   /\ result' = NoDoc
                   /\ tret' = TResult("execute_deployment", id, None,
                                      "running", NoDoc)
    /\ UNCHANGED templates

\* DeploymentTemplateService.execute_deployment up to the call of the
\* instance's execute_deployment (lines 92-108).
TS_ExecuteBegin ==
    /\ tpc = Idle
    /\ \E id \in TemplateIds :
          LET template == templates[id]
          IN  IF template = NoDoc
              THEN /\ tret' = TResult("execute_deployment", id, None,
                                      "not_found", NoDoc)
                   /\ UNCHANGED <<inst, tpc, uuids, hookCalls, raised,
                                  result>>
              ELSE /\ uuids < MaxInstances
                   /\ uuids' = uuids + 1
                   /\ inst' = Construct(FactoryClass(template.type),
                                        template.attributes, uuids + 1)
                   /\ tpc' = At("start", 0)
                   /\ hookCalls' = <<>>
                   /\ raised' = NoRaise
                   /\ result' = NoDoc
                   /\ tret' = TResult("execute_deployment", id, None,
                                      "running", NoDoc)
    /\ UNCHANGED templates

\* DeploymentRepository.update_template: $set of the given fields.
update_template(db, id, update_data) ==
    IF db[id] = NoDoc THEN db
    ELSE [db EXCEPT ![id] = DictSet(@, update_data)]

\* Lines 113-117: the result is written onto the record, the record is
\* read back and converted.
TS_ExecuteEnd ==
    /\ tpc.at = "returned"
    /\ LET db2 == update_template(templates, tret.id, result)
       IN  /\ templates' = db2
           /\ tret' = Reply("execute_deployment", tret.id, None,
                            db2[tret.id])
    /\ tpc' = Idle
    /\ UNCHANGED <<inst, hookCalls, raised, result, uuids>>

\* DeploymentTemplateService.update_template: attributes are merged.
TS_UpdateTemplate ==
    /\ tpc = Idle
    /\ \E id \in TemplateIds, attributes \in SuppliedAttributes :
          LET existing == templates[id]
              db2 == update_template(templates, id,
                        [attributes |->
                            DictSet(existing.attributes, attributes)])
          IN  IF existing = NoDoc
              THEN /\ tret' = TResult("update_template", id, None, "none",
                                      NoDoc)
                   /\ UNCHANGED templates
              ELSE /\ templates' = db2
                   /\ tret' = Reply("update_template", id, None, db2[id])
    /\ UNCHANGED <<inst, tpc, hookCalls, raised, result, uuids>>

\* DeploymentTemplateService.delete_template: the record is removed.
TS_DeleteTemplate ==
    /\ tpc = Idle
    /\ \E id \in TemplateIds :
          /\ templates' = [templates EXCEPT ![id] = NoDoc]
          /\ tret' = TResult("delete_template", id, None,
                             IF templates[id] = NoDoc THEN "none" ELSE "ok",
                             NoDoc)
    /\ UNCHANGED <<inst, tpc, hookCalls, raised, result, uuids>>

----------------------------------------------------------------------------
(* update_step_status as the requests of two clients run it: each database *)
(* call is one step, the work on the local copy of the steps goes with the *)
(* read that precedes it.  Nothing in the handler or the repository locks  *)
(* the document or compares a version.                                     *)

Procs == {"p1", "p2"}

IdleWorker ==
    [pc |-> "idle", id |-> None, req |-> NoReq, idx |-> 0, steps |-> <<>>,
     result |-> "pending", dto |-> NoDoc]

Event(p, kind) == [proc |-> p, kind |-> kind]

\* Lines 70-96: read the document, change the first step of that name in
\* the local copy.
C_Call(p) ==
    /\ workers[p].pc = "idle"
    /\ \E id \in DeploymentIds, step_name \in RequestedNames,
          status \in StepStatuses, operator \in Operators,
          remark \in {None, "r1"}, t \in Clock :
          LET deployment == get_by_id(deployments, id)
              idx == IF deployment = NoDoc THEN 0
                     ELSE FirstMatch(deployment.steps, step_name)
              req == StepUpdateDTO(step_name, status, operator, remark)
          IN  IF idx = 0
              THEN /\ workers' = [workers EXCEPT ![p] =
                          [IdleWorker EXCEPT !.pc = "done", !.id = id,
                                             !.req = req, !.result = "none"]]
                   /\ UNCHANGED now
              ELSE /\ workers' = [workers EXCEPT ![p] =
                          [IdleWorker EXCEPT
                              !.pc = "status", !.id = id, !.req = req,
                              !.idx = idx,
                              !.steps = [deployment.steps EXCEPT ![idx] =
                                  ApplyStepUpdate(@, status, operator,
                                                  remark, t)]]]
                   /\ now' = t
    /\ events' = Append(events, Event(p, "read"))
    /\ UNCHANGED deployments

\* Variant: the aggregator is run on the step list as stored at the time of
\* the write, not on the local copy of the call.
C_WriteStatus_reread(p) ==
    /\ workers[p].pc = "status"
    /\ deployments' = update_deployment_status_based_on_steps(
                            deployments, workers[p].id,
                            deployments[workers[p].id].steps)
    /\ workers' = [workers EXCEPT ![p].pc = "steps"]
    /\ events' = Append(events, Event(p, "status"))
    /\ UNCHANGED now

\* Line 100: the aggregator writes the status it computes from the local
\* steps.
C_WriteStatus(p) ==
    /\ workers[p].pc = "status"
    /\ deployments' = update_deployment_status_based_on_steps(
                            deployments, workers[p].id, workers[p].steps)
    /\ workers' = [workers EXCEPT ![p].pc = "steps"]
    /\ events' = Append(events, Event(p, "status"))
    /\ UNCHANGED now

\* Variant: only the step the request changed is written.
SaveSteps_merge(db, w) ==
    update(db, w.id, "steps",
           [db[w.id].steps EXCEPT ![w.idx] = w.steps[w.idx]])

\* Line 103: the whole local step array replaces the stored one.
SaveSteps(db, w) == update(db, w.id, "steps", w.steps)

C_WriteSteps(p) ==
    /\ workers[p].pc = "steps"
    /\ deployments' = SaveSteps(deployments, workers[p])
    /\ workers' = [workers EXCEPT ![p].pc = "readback"]
    /\ events' = Append(events, Event(p, "steps"))
    /\ UNCHANGED now

\* Lines 104-105: read back and convert.
C_ReadBack(p) ==
    /\ workers[p].pc = "readback"
    /\ workers' = [workers EXCEPT
                     ![p].pc = "done", ![p].result = "ok",
                     ![p].dto = convert_to_dto(
                                    get_by_id(deployments, workers[p].id),
                                    workers[p].id)]
    /\ events' = Append(events, Event(p, "readback"))
    /\ UNCHANGED <<deployments, now>>

----------------------------------------------------------------------------
(* Specification of the deployment service: one handler at a time *)

\* The collection as seeded (DeploymentRepository's seeding script inserts
\* documents through Repository.create): d1 always exists, d2 may.
SeededStores ==
    {[d1 |-> <<"a">>, d2 |-> TRUE], [d1 |-> <<"a", "b">>, d2 |-> FALSE],
     [d1 |-> <<"a", "a">>, d2 |-> FALSE],
     [d1 |-> <<"a", "b", "c">>, d2 |-> FALSE]}

NoResult == Result("none", NullId, "none", NoDoc)

SeededDeployments(seed) ==
    [id \in StoreIds |->
        IF id = "d1" THEN SeedDocument(seed.d1)
        ELSE IF id = "d2" /\ seed.d2 THEN SeedDocument(<<"a">>) ELSE NoDoc]

NoDeployments == [id \in StoreIds |-> NoDoc]
NoTemplates == [id \in TemplateIds |-> NoDoc]
NoTResult == TResult("none", None, None, "none", NoDoc)

depVars == <<deployments, now, ret, aggCall, calls, prev>>
templateVars ==
    <<templates, inst, tpc, hookCalls, raised, result, tret, uuids>>
concVars == <<workers, events>>
vars == <<depVars, templateVars, concVars>>

Init ==
    /\ \E seed \in SeededStores : deployments = SeededDeployments(seed)
    /\ now = 0
    /\ ret = NoResult
    /\ aggCall = NoAggCall
    /\ calls = 0
    /\ templates = NoTemplates
    /\ inst = NoInst
    /\ tpc = Idle
    /\ hookCalls = <<>>
    /\ raised = NoRaise
    /\ result = NoDoc
    /\ tret = NoTResult
    /\ uuids = 0
    /\ workers = [p \in Procs |-> IdleWorker]
    /\ events = <<>>
    /\ prev = NoResult

Next ==
    \/ UpdateStepStatus /\ UNCHANGED <<prev, templateVars, concVars>>
    \/ UpdateDeployment /\ UNCHANGED <<prev, templateVars, concVars>>
    \/ AddFeedback /\ UNCHANGED <<prev, templateVars, concVars>>
    \/ DeleteDeployment /\ UNCHANGED <<prev, templateVars, concVars>>
    \/ CreateDeployment /\ UNCHANGED <<prev, templateVars, concVars>>

Spec == Init /\ [][Next]_vars

----------------------------------------------------------------------------
(* Specification of the template service: one request at a time, the run  *)
(* of the skeleton step by step.                                          *)

NextTemplate ==
    \/ TS_CreateTemplate /\ UNCHANGED <<depVars, concVars>>
    \/ TS_ExecuteBegin /\ UNCHANGED <<depVars, concVars>>
    \/ T_Start /\ UNCHANGED <<depVars, concVars>>
    \/ T_PhaseLog /\ UNCHANGED <<depVars, concVars>>
    \/ T_HookReturns /\ UNCHANGED <<depVars, concVars>>
    \/ T_HookRaises /\ UNCHANGED <<depVars, concVars>>
    \/ T_CompleteStep /\ UNCHANGED <<depVars, concVars>>
    \/ T_Finish /\ UNCHANGED <<depVars, concVars>>
    \/ T_Except /\ UNCHANGED <<depVars, concVars>>
    \/ TS_ExecuteEnd /\ UNCHANGED <<depVars, concVars>>
    \/ TS_UpdateTemplate /\ UNCHANGED <<depVars, concVars>>
    \/ TS_DeleteTemplate /\ UNCHANGED <<depVars, concVars>>

InitTemplate ==
    /\ deployments = NoDeployments
    /\ now = 0
    /\ ret = NoResult
    /\ aggCall = NoAggCall
    /\ calls = 0
    /\ templates = NoTemplates
    /\ inst = NoInst
    /\ tpc = Idle
    /\ hookCalls = <<>>
    /\ raised = NoRaise
    /\ result = NoDoc
    /\ tret = NoTResult
    /\ uuids = 0
    /\ workers = [p \in Procs |-> IdleWorker]
    /\ events = <<>>
    /\ prev = NoResult

SpecTemplate == InitTemplate /\ [][NextTemplate]_vars

----------------------------------------------------------------------------
(* Specification of one workflow instance used directly: the object is    *)
(* constructed once and execute_deployment() is called on it again and    *)
(* again, each call running the skeleton step by step.                    *)

\* A caller invokes execute_deployment() on the instance it holds, whether
\* the instance has run before or not.
I_ExecuteDeployment ==
    /\ tpc.at \in {"idle", "returned"}
    /\ calls < MaxCalls
    /\ calls' = calls + 1
    /\ tpc' = At("start", 0)
    /\ hookCalls' = <<>>
    /\ raised' = NoRaise
    /\ result' = NoDoc
    /\ UNCHANGED <<inst, templates, tret, uuids>>

InitInstance ==
    /\ deployments = NoDeployments
    /\ now = 0
    /\ ret = NoResult
    /\ aggCall = NoAggCall
    /\ calls = 0
    /\ templates = NoTemplates
    /\ inst \in {Construct(cls, attributes, 1) :
                   cls \in Classes, attributes \in SuppliedAttributes}
    /\ tpc = Idle
    /\ hookCalls = <<>>
    /\ raised = NoRaise
    /\ result = NoDoc
    /\ tret = NoTResult
    /\ uuids = 1
    /\ workers = [p \in Procs |-> IdleWorker]
    /\ events = <<>>
    /\ prev = NoResult

instFrame == <<deployments, now, ret, aggCall, prev, concVars>>

NextInstance ==
    \/ I_ExecuteDeployment /\ UNCHANGED instFrame
    \/ T_Start /\ UNCHANGED <<calls, instFrame>>
    \/ T_PhaseLog /\ UNCHANGED <<calls, instFrame>>
    \/ T_HookReturns /\ UNCHANGED <<calls, instFrame>>
    \/ T_HookRaises /\ UNCHANGED <<calls, instFrame>>
    \/ T_CompleteStep /\ UNCHANGED <<calls, instFrame>>
    \/ T_Finish /\ UNCHANGED <<calls, instFrame>>
    \/ T_Except /\ UNCHANGED <<calls, instFrame>>

SpecInstance == InitInstance /\ [][NextInstance]_vars

----------------------------------------------------------------------------

(* Specification of the aggregator on its own: the private method applied  *)
(* to any step list, the empty one included, on documents whose status a   *)
(* caller may have set through update_deployment.                          *)

AggregatorInputs ==
    {<<>>}
    \cup {<<[FreshStep("a") EXCEPT !.status = s1]>> : s1 \in StepStatuses}
    \cup {<<[FreshStep("a") EXCEPT !.status = s1],
            [FreshStep("b") EXCEPT !.status = s2]>> :
                s1 \in StepStatuses, s2 \in StepStatuses}

AggregatorCall ==
    /\ calls < MaxCalls
    /\ calls' = calls + 1
    /\ \E id \in DeploymentIds, steps \in AggregatorInputs :
          /\ deployments[id] # NoDoc
          /\ deployments' =
                update_deployment_status_based_on_steps(deployments, id,
                                                        steps)
          /\ aggCall' = AggCallOf(deployments, id, steps)
    /\ UNCHANGED <<now, ret, prev, templateVars, concVars>>

InitAggregator ==
    /\ \E seed \in SeededStores, status \in StepStatuses :
          deployments = update(SeededDeployments(seed), "d1", "status",
                               status)
    /\ now = 0
    /\ ret = NoResult
    /\ aggCall = NoAggCall
    /\ calls = 0
    /\ templates = NoTemplates
    /\ inst = NoInst
    /\ tpc = Idle
    /\ hookCalls = <<>>
    /\ raised = NoRaise
    /\ result = NoDoc
    /\ tret = NoTResult
    /\ uuids = 0
    /\ workers = [p \in Procs |-> IdleWorker]
    /\ events = <<>>
    /\ prev = NoResult

NextAggregator == AggregatorCall

SpecAggregator == InitAggregator /\ [][NextAggregator]_vars

----------------------------------------------------------------------------
(* Specification of a sequence of update_step_status calls that remembers  *)
(* what the call before the last returned.                                 *)

InitRepeat ==
    /\ \E seed \in SeededStores : deployments = SeededDeployments(seed)
    /\ now = 0
    /\ ret = NoResult
    /\ aggCall = NoAggCall
    /\ calls = 0
    /\ templates = NoTemplates
    /\ inst = NoInst
    /\ tpc = Idle
    /\ hookCalls = <<>>
    /\ raised = NoRaise
    /\ result = NoDoc
    /\ tret = NoTResult
    /\ uuids = 0
    /\ workers = [p \in Procs |-> IdleWorker]
    /\ events = <<>>
    /\ prev = NoResult

NextRepeat ==
    /\ UpdateStepStatus
    /\ prev' = ret
    /\ UNCHANGED <<templateVars, concVars>>

SpecRepeat == InitRepeat /\ [][NextRepeat]_vars

----------------------------------------------------------------------------
(* Specification of two concurrent update_step_status requests *)

InitConc ==
    /\ \E seed \in SeededStores : deployments = SeededDeployments(seed)
    /\ now = 0
    /\ ret = NoResult
    /\ aggCall = NoAggCall
    /\ calls = 0
    /\ templates = NoTemplates
    /\ inst = NoInst
    /\ tpc = Idle
    /\ hookCalls = <<>>
    /\ raised = NoRaise
    /\ result = NoDoc
    /\ tret = NoTResult
    /\ uuids = 0
    /\ workers = [p \in Procs |-> IdleWorker]
    /\ events = <<>>
    /\ prev = NoResult

concFrame == <<ret, aggCall, calls, prev, templateVars>>

NextConc ==
    \/ \E p \in Procs : C_Call(p) /\ UNCHANGED concFrame
    \/ \E p \in Procs : C_WriteStatus(p) /\ UNCHANGED concFrame
    \/ \E p \in Procs : C_WriteSteps(p) /\ UNCHANGED concFrame
    \/ \E p \in Procs : C_ReadBack(p) /\ UNCHANGED concFrame

SpecConc == InitConc /\ [][NextConc]_vars

----------------------------------------------------------------------------
(* Properties of the deployment service *)

\* The decision order of the aggregation rule, stated on the statuses that
\* occur in the list: any Failed, else all Completed, else any InProgress
\* or Completed, else NotStarted.
ExpectedStatus(steps) ==
    IF \E i \in DOMAIN steps : steps[i].status = Failed THEN Failed
    ELSE IF \A i \in DOMAIN steps : steps[i].status = Completed THEN Completed
    ELSE IF \E i \in DOMAIN steps : steps[i].status \in {InProgress, Completed}
    THEN InProgress
    ELSE NotStarted

Exists(id) == deployments[id] # NoDoc

StatusMatchesIn(db, id) ==
    db[id] # NoDoc /\ db[id].steps # <<>>
        => db[id].status = ExpectedStatus(db[id].steps)

StatusMatchesSteps(id) == StatusMatchesIn(deployments, id)

\* C1: whenever the aggregator runs on a non-empty step list it writes the
\* status chosen by first match of: any step Failed -> Failed; all steps
\* Completed -> Completed; some step InProgress or Completed -> InProgress;
\* otherwise NotStarted.  A Failed step wins over Completed steps, and
\* partial completion with no step in progress gives InProgress.
C1_AggregatorDecision ==
    aggCall.called /\ aggCall.steps # <<>> =>
        LET st == {aggCall.steps[i].status : i \in DOMAIN aggCall.steps}
        IN  /\ aggCall.status = ExpectedStatus(aggCall.steps)
            /\ deployments[aggCall.id].status = aggCall.status
            /\ Failed \in st => aggCall.status = Failed
            /\ st = {Completed, NotStarted} => aggCall.status = InProgress

\* C1 witness: the aggregator ran on a list with a Failed and a Completed
\* step and wrote Failed.
C1_Witness ==
    /\ aggCall.called
    /\ \E i, j \in DOMAIN aggCall.steps :
          /\ aggCall.steps[i].status = Failed
          /\ aggCall.steps[j].status = Completed
    /\ aggCall.status = Failed
    /\ aggCall.wrote

NonPreservingCall == ret'.op = "update_deployment"

C3_StepUpdatePersisted ==
    ret.op = "update_step_status" /\ ret.result = "ok" =>
        LET doc == deployments[ret.id]
            idx == FirstMatch(doc.steps, ret.req.step_name)
        IN  /\ idx # 0
            /\ doc.steps[idx].status = ret.req.status
            /\ doc.steps[idx].operator = ret.req.operator
            /\ doc.status = ExpectedStatus(doc.steps)
            /\ ret.dto.status = doc.status
            /\ ret.dto.steps = doc.steps
            /\ ret.dto.id = ret.id

\* C3 witness: a step update that moved the deployment to Completed.
C3_Witness ==
    /\ ret.op = "update_step_status" /\ ret.result = "ok"
    /\ ret.req.status = Completed
    /\ ret.dto.status = Completed
    /\ Len(ret.dto.steps) >= 2

Permute(steps, p) == [i \in DOMAIN steps |-> steps[p[i]]]

Rename(steps, r) == [i \in DOMAIN steps |-> [steps[i] EXCEPT !.name = r[@]]]

Renamings == [StepNames -> {"a", "zz"}]

\* C9: the status the aggregator writes depends only on the multiset of
\* step statuses: every permutation and every renaming of the step list
\* aggregates to the status that was written.
C9_OrderAndNameIndependent ==
    aggCall.called /\ aggCall.steps # <<>> =>
        \A p \in Permutations(DOMAIN aggCall.steps), r \in Renamings :
            new_status(Rename(Permute(aggCall.steps, p), r)) = aggCall.status

\* C9 witness: the aggregator ran on three steps of three different
\* statuses.
C9_Witness ==
    /\ aggCall.called
    /\ Len(aggCall.steps) = 3
    /\ Cardinality({aggCall.steps[i].status : i \in DOMAIN aggCall.steps}) = 3

\* C10 as claimed: a step carries an ended_at only while it is Completed.
C10_EndedOnlyWhileCompleted ==
    \A id \in StoreIds :
        Exists(id) =>
            \A i \in DOMAIN deployments[id].steps :
                deployments[id].steps[i].ended_at # NoTime
                    => deployments[id].steps[i].status = Completed

----------------------------------------------------------------------------
(* Properties of the template workflow, under SpecTemplate *)

Returned == tpc.at = "returned"
HookRaised == raised # NoRaise
ErrorEntries(logs) == {n \in DOMAIN logs : logs[n].level = Error}

\* C4: for each of the three variants, a run of execute_deployment in which
\* no hook raises ends with status Completed, current_step 5 and
\* steps_completed [1,2,3,4,5] (as many as steps_total), and returns a
\* result with status Completed, a count of 5 completed steps and no error
\* field.
C4_TemplateCompletion ==
    (Returned /\ ~HookRaised) =>
        /\ inst.cls \in Classes
        /\ inst.status = Completed
        /\ inst.current_step = 5
        /\ inst.steps_completed = <<1, 2, 3, 4, 5>>
        /\ Len(inst.steps_completed) = inst.steps_total
        /\ result.status = Completed
        /\ result.steps_completed = PyInt(5)
        /\ "error" \notin DOMAIN result

C4_Witness ==
    /\ Returned /\ ~HookRaised
    /\ inst.cls = "EmergencyDeployment"
    /\ result.status = Completed

\* C5: once the hook of phase k has raised, no hook of a later phase is
\* invoked, the status is never Completed and is Failed when the run has
\* returned, current_step is k-1 and steps_completed has k-1 elements.
C5_FailureStopsSequence ==
    HookRaised =>
        /\ hookCalls = [j \in 1..raised.phase |-> j]
        /\ tpc.at \in {"except", "returned", "idle"}
        /\ inst.status # Completed
        /\ (tpc.at # "except") => inst.status = Failed
        /\ inst.current_step = raised.phase - 1
        /\ Len(inst.steps_completed) = raised.phase - 1

C5_Witness ==
    /\ Returned /\ HookRaised
    /\ raised.phase = 3
    /\ inst.status = Failed
    /\ inst.steps_completed = <<1, 2>>

\* C6: a failure of a hook does not leave execute_deployment as an
\* exception: the run returns a result with status Failed whose error field
\* is the failure message, the log holds exactly one Error entry, the last
\* one, with that message; and a returned result has an error field exactly
\* when its status is Failed.
C6_FailureCaptured ==
    /\ HookRaised => tpc.at \in {"except", "returned", "idle"}
    /\ Returned =>
        /\ ("error" \in DOMAIN result) <=> (result.status = Failed)
        /\ HookRaised =>
            /\ result.status = Failed
            /\ result.error = raised.message
            /\ ErrorEntries(inst.logs) = {Len(inst.logs)}
            /\ inst.logs[Len(inst.logs)].message =
                    <<"failed", raised.message>>

C6_Witness ==
    /\ Returned /\ HookRaised
    /\ raised.phase = 4
    /\ "error" \in DOMAIN result
    /\ Len(inst.logs) > 8

\* C7: after the service's execute_deployment on an existing template, the
\* stored record carries the run's final status, its list of completed
\* steps, its log entries and the attributes the hooks filled in.
Executed ==
    /\ tret.op = "execute_deployment"
    /\ tret.result \in {"ok", "error"}

C7_ExecutionPersisted ==
    Executed =>
        /\ templates[tret.id].status = inst.status
        /\ templates[tret.id].steps_completed = PyList(inst.steps_completed)
        /\ templates[tret.id].logs = inst.logs
        /\ templates[tret.id].attributes = inst.attributes

\* C8: the factory builds the variant whose type tag is the requested one
\* for exactly the tags Standard, Emergency and Training; for any other tag
\* create_deployment_template fails, no instance is constructed and no
\* record is stored.
SupportedTags == {"Standard", "Emergency", "Training"}

CreateTemplateStep ==
    /\ tret'.op = "create_deployment_template"
    /\ <<templates, tret, uuids>>' # <<templates, tret, uuids>>

C8_FactoryRejection ==
    [][CreateTemplateStep =>
        IF tret'.req \in SupportedTags
        THEN /\ tret'.result = "ok"
             /\ templates[tret'.id] = NoDoc
             /\ templates'[tret'.id].type = tret'.req
             /\ tret'.dto.type = tret'.req
             /\ uuids' = uuids + 1
        ELSE /\ tret'.result = "unsupported_type"
             /\ templates' = templates
             /\ uuids' = uuids]_vars

C8_Witness ==
    /\ tret.op = "create_deployment_template"
    /\ tret.result = "unsupported_type"
    /\ tret.req \notin SupportedTags
    /\ \E id \in TemplateIds : templates[id] # NoDoc

----------------------------------------------------------------------------
(* Step updates: timestamps, permissiveness, missing targets (under Spec) *)

StepsOf(db) ==
    UNION {{db[id].steps[i] : i \in DOMAIN db[id].steps} :
              id \in {d \in StoreIds : db[d] # NoDoc}}

\* The step a successful update_step_status step changed: the first step
\* of the stored list that carries the requested name.
StepUpdated == ret'.op = "update_step_status" /\ ret'.result = "ok"
TargetIndex(steps, name) ==
    CHOOSE i \in DOMAIN steps :
        /\ steps[i].name = name
        /\ \A j \in 1..(i - 1) : steps[j].name # name
OldStep == deployments[ret'.id].steps[
                TargetIndex(deployments[ret'.id].steps, ret'.req.step_name)]
NewStep == deployments'[ret'.id].steps[
                TargetIndex(deployments[ret'.id].steps, ret'.req.step_name)]

\* C11 as claimed: a step whose status is not NotStarted has its started_at
\* set, whatever sequence of step updates led there (a direct move from
\* NotStarted to Failed included).
C11_StartedOnceLeftNotStarted ==
    \A step \in StepsOf(deployments) :
        step.status # NotStarted => step.started_at # NoTime

\* C12: with a clock that never goes back, Completed applied to a step
\* that was never started sets started_at = ended_at = the time of the
\* call; Completed applied to a started step keeps started_at and sets
\* ended_at to the time of the call, not earlier than started_at; and in
\* every state a step with both timestamps set has started_at <= ended_at.
C12_TimestampOrder ==
    [][/\ (StepUpdated /\ ret'.req.status = Completed) =>
            /\ NewStep.ended_at = now'
            /\ NewStep.started_at # NoTime
            /\ OldStep.started_at = NoTime =>
                    NewStep.started_at = NewStep.ended_at
            /\ OldStep.started_at # NoTime =>
                    /\ NewStep.started_at = OldStep.started_at
                    /\ NewStep.started_at <= NewStep.ended_at
       /\ \A step \in StepsOf(deployments') :
            (step.started_at # NoTime /\ step.ended_at # NoTime)
                => step.started_at <= step.ended_at]_vars

\* C12 witness: a step that went InProgress and later Completed, and so
\* ended after it started.
C12_Witness ==
    \E step \in StepsOf(deployments) :
        /\ step.status = Completed
        /\ step.started_at # NoTime
        /\ step.started_at < step.ended_at

\* C13 as claimed: every update of an existing step succeeds whatever the
\* old and the new status are, the step takes the supplied status and
\* operator, takes the supplied remark whenever one is supplied (the empty
\* remark included) and keeps its remark when none is supplied.
C13_PermissiveOverwrite ==
    [][StepUpdated =>
        /\ NewStep.status = ret'.req.status
        /\ NewStep.operator = ret'.req.operator
        /\ ret'.req.remark # None => NewStep.remark = ret'.req.remark
        /\ ret'.req.remark = None => NewStep.remark = OldStep.remark]_vars

\* C14: update_step_status succeeds only for an existing deployment and a
\* name some step carries; for a missing deployment or a name no step
\* carries it returns None, no document changes and the aggregator is not
\* run.
C14_NotFoundNoWrite ==
    [][ret'.op = "update_step_status" =>
        /\ ret'.result \in {"ok", "none"}
        /\ ret'.result = "ok" =>
            /\ deployments[ret'.id] # NoDoc
            /\ \E i \in DOMAIN deployments[ret'.id].steps :
                  deployments[ret'.id].steps[i].name = ret'.req.step_name
        /\ ret'.result = "none" =>
            /\ deployments' = deployments
            /\ ~aggCall'.called
            /\ ret'.dto = NoDoc]_vars

\* C14 witness: a call on an existing deployment with a name none of its
\* steps carries returned None after an earlier update had succeeded.
C14_Witness ==
    /\ ret.op = "update_step_status" /\ ret.result = "none"
    /\ deployments[ret.id] # NoDoc
    /\ \E step \in StepsOf(deployments) : step.status # NotStarted

----------------------------------------------------------------------------
(* Concurrent step updates (under SpecConc) *)

Other(p) == CHOOSE q \in Procs : q # p
Pos(p, kind) == CHOOSE n \in DOMAIN events : events[n] = Event(p, kind)
BothReturnedOk == \A p \in Procs : workers[p].result = "ok"

\* Both requests succeeded on different steps of one deployment, and each
\* read the step list before either wrote it.
Raced ==
    /\ BothReturnedOk
    /\ workers["p1"].id = workers["p2"].id
    /\ workers["p1"].idx # workers["p2"].idx
    /\ \A p, q \in Procs : Pos(p, "read") < Pos(q, "steps")

LastWriter ==
    CHOOSE p \in Procs : Pos(Other(p), "steps") < Pos(p, "steps")

\* C15: when two update_step_status calls on different steps of the same
\* deployment both read the step list before either writes it, both
\* return success and the stored step list is the array of the call that
\* wrote last: the step the other call changed is back as it was before
\* that call, its update is gone.
C15_LostUpdate ==
    Raced =>
        LET w == workers[LastWriter]
            o == workers[Other(LastWriter)]
            stored == deployments[w.id].steps
        IN  /\ stored = w.steps
            /\ stored[o.idx] # o.steps[o.idx]
            /\ stored[o.idx].operator = "admin"
            /\ stored[w.idx] = w.steps[w.idx]
            /\ w.dto.steps[w.idx] = w.steps[w.idx]

\* C15 witness: two calls raced, both returned success, and the stored
\* list holds the Completed of one but not the Failed of the other.
C15_Witness ==
    /\ Raced
    /\ workers[LastWriter].req.status = Completed
    /\ workers[Other(LastWriter)].req.status = Failed
    /\ \A i \in DOMAIN deployments[workers["p1"].id].steps :
          deployments[workers["p1"].id].steps[i].status # Failed

----------------------------------------------------------------------------
(* The aggregator on an empty step list (under SpecAggregator) *)

\* C16: an aggregator call with an empty step list writes nothing: the
\* status of the deployment stays what it was (it is not reset to
\* NotStarted), at the first such call and at every later one.
C16_EmptyListNoWrite ==
    [][(calls' # calls /\ aggCall'.called /\ aggCall'.steps = <<>>) =>
        /\ deployments' = deployments
        /\ ~aggCall'.wrote
        /\ aggCall'.status = deployments[aggCall'.id].status]_vars

\* C16 witness: a second call in a row with the empty list on a deployment
\* whose status is Completed, still Completed.
C16_Witness ==
    /\ calls >= 2
    /\ aggCall.called /\ aggCall.steps = <<>>
    /\ deployments[aggCall.id].status = Completed
    /\ deployments[aggCall.id].steps # <<>>

----------------------------------------------------------------------------
(* Emergency attributes and fresh instances (under SpecTemplate) *)

\* While the service is in execute_deployment, the record of the template
\* still holds the attributes the instance was constructed with.
InExecution ==
    /\ tret.op = "execute_deployment"
    /\ tret.result \in {"running", "ok", "error"}

ConstructedWith == templates[tret.id].attributes

EmergencyKeys == {"emergency_level", "response_time_required"}

\* C17 as claimed: an Emergency instance carries the emergency level and
\* the required response time it was constructed with, at construction and
\* still after execute_deployment.
C17_EmergencyAttributesKept ==
    (InExecution /\ inst.cls = "EmergencyDeployment") =>
        \A k \in EmergencyKeys :
            /\ k \in DOMAIN inst.attributes
            /\ k \in DOMAIN ConstructedWith =>
                    inst.attributes[k] = ConstructedWith[k]

----------------------------------------------------------------------------
(* Feedbacks (under Spec) *)

IsPrefix(s1, s2) ==
    /\ Len(s1) <= Len(s2)
    /\ \A n \in DOMAIN s1 : s1[n] = s2[n]

FeedbackAdded(id) ==
    ret'.op = "add_feedback" /\ ret'.result = "ok" /\ ret'.id = id

\* C18: the feedbacks of a deployment only grow at the end: add_feedback on
\* an existing deployment appends one item and leaves the earlier items,
\* the steps and the status as they were; every other call leaves the
\* feedbacks of every deployment as they were; add_feedback on a missing
\* deployment changes nothing.
C18_FeedbackAppendOnly ==
    [][/\ \A id \in StoreIds :
            deployments[id] # NoDoc =>
                /\ deployments'[id] # NoDoc
                /\ IsPrefix(deployments[id].feedbacks,
                            deployments'[id].feedbacks)
                /\ IF FeedbackAdded(id)
                   THEN /\ Len(deployments'[id].feedbacks) =
                                Len(deployments[id].feedbacks) + 1
                        /\ deployments'[id].steps = deployments[id].steps
                        /\ deployments'[id].status = deployments[id].status
                        /\ ret'.dto.feedbacks = deployments'[id].feedbacks
                   ELSE deployments'[id].feedbacks =
                            deployments[id].feedbacks
       /\ (ret'.op = "add_feedback" /\ ret'.result # "ok") =>
            /\ ret'.result = "none"
            /\ deployments[ret'.id] = NoDoc
            /\ deployments' = deployments]_vars

\* C18 witness: a third feedback was appended to a deployment, the first
\* two still in front of it in the order they came.
C18_Witness ==
    /\ ret.op = "add_feedback" /\ ret.result = "ok"
    /\ Len(deployments[ret.id].feedbacks) = 3
    /\ deployments[ret.id].feedbacks[1].feedback_at
            < deployments[ret.id].feedbacks[2].feedback_at
    /\ deployments[ret.id].feedbacks[2].feedback_at
            < deployments[ret.id].feedbacks[3].feedback_at

----------------------------------------------------------------------------
(* A repeated step update (under SpecRepeat) *)

\* The last two calls were the same successful update to Completed of the
\* same step of the same deployment.
AppliedTwice ==
    /\ prev.op = "update_step_status" /\ prev.result = "ok"
    /\ ret.op = "update_step_status" /\ ret.result = "ok"
    /\ ret.id = prev.id
    /\ ret.req = prev.req
    /\ ret.req.status = Completed

\* C19: when the same update to Completed is applied twice in a row to a
\* step, the step after the second application has the status, operator,
\* remark and started_at it had after the first, its ended_at is not
\* earlier, the other steps are as they were, and the status of the
\* deployment is the same after both applications.
C19_RepeatedCompleted ==
    AppliedTwice =>
        LET once == prev.dto.steps
            twice == deployments[ret.id].steps
            i == TargetIndex(once, ret.req.step_name)
        IN  /\ twice[i].status = once[i].status
            /\ twice[i].status = Completed
            /\ twice[i].operator = once[i].operator
            /\ twice[i].remark = once[i].remark
            /\ twice[i].started_at = once[i].started_at
            /\ twice[i].ended_at >= once[i].ended_at
            /\ \A j \in DOMAIN once : j # i => twice[j] = once[j]
            /\ Len(twice) = Len(once)
            /\ deployments[ret.id].status = prev.dto.status
            /\ ret.dto.status = prev.dto.status

\* C19 witness: Completed applied twice to a step of a two-step
\* deployment; the second application moved ended_at only.
C19_Witness ==
    /\ AppliedTwice
    /\ Len(deployments[ret.id].steps) = 2
    /\ \E i \in DOMAIN deployments[ret.id].steps :
          /\ deployments[ret.id].steps[i].status = Completed
          /\ deployments[ret.id].steps[i].started_at
                < deployments[ret.id].steps[i].ended_at
          /\ prev.dto.steps[i].started_at = prev.dto.steps[i].ended_at

\* C20: every execution request starts on a new instance, whatever the
\* record of the template holds from earlier runs: the instance has an id
\* no earlier instance had, status Created, current_step 0, no completed
\* steps and no log; the hooks run from phase 1 in order; and a run in
\* which no hook raises returns Completed with 5 completed steps, the
\* second time as the first.
ExecutionStarts == tpc.at = "idle" /\ tpc'.at = "start"

C20_FreshInstancePerExecution ==
    [][/\ ExecutionStarts =>
            /\ templates[tret'.id].status \in {Created, Completed, Failed}
            /\ inst'.id > uuids
            /\ inst'.status = Created
            /\ inst'.current_step = 0
            /\ inst'.steps_completed = <<>>
            /\ inst'.logs = <<>>
            /\ hookCalls' = <<>>
            /\ templates' = templates
       /\ hookCalls' # hookCalls =>
            hookCalls' = [j \in 1..Len(hookCalls') |-> j]
       /\ (tpc'.at = "returned" /\ raised' = NoRaise) =>
            /\ result'.status = Completed
            /\ result'.steps_completed = PyInt(5)
            /\ inst'.steps_completed = <<1, 2, 3, 4, 5>>]_vars

\* C20 witness: a run on a template whose record already says Completed
\* from an earlier run has itself returned Completed, on another instance.
C20_Witness ==
    /\ Returned /\ ~HookRaised
    /\ templates[tret.id].status = Completed
    /\ templates[tret.id].id # inst.id
    /\ result.status = Completed
    /\ inst.current_step = 5

\* ---------------------------------------------------------------------
\* C21 (DeploymentTemplate.py 61-88)

\* The hook names in the order the skeleton calls them.
HookOrder ==
    <<"prepare", "allocate_resources", "perform_deployment",
      "verify_deployment", "finalize">>

\* C21: within one call of execute_deployment() the hooks are invoked in
\* the order prepare, allocate_resources, perform_deployment,
\* verify_deployment, finalize, each at most once: the k-th invocation is
\* that of phase k.  The hook of phase k is entered only when no earlier
\* hook raised and phases 1..k-1 are all recorded complete, so no phase is
\* skipped or reordered, whatever the variant.
C21_FixedPhaseOrder ==
    [][(hookCalls' # hookCalls /\ hookCalls' # <<>>) =>
          LET k == Len(hookCalls') IN
            /\ hookCalls' = Append(hookCalls, k)
            /\ k <= Len(HookOrder)
            /\ PhaseNames[k] = HookOrder[k]
            /\ tpc = At("hook", k)
            /\ raised = NoRaise
            /\ inst.current_step = k - 1
            /\ inst.steps_completed = [j \in 1..(k - 1) |-> j]
            /\ inst.cls \in Classes]_vars

\* C21 witness: a Training run has returned after all five hooks were
\* invoked, in order.
C21_Witness ==
    /\ Returned /\ ~HookRaised
    /\ inst.cls = "TrainingDeployment"
    /\ hookCalls = <<1, 2, 3, 4, 5>>

\* ---------------------------------------------------------------------
\* C22 (DeploymentTemplate.py 53-126)

\* C22: in every state of a workflow instance, after any number of
\* execute_deployment() calls on it, 0 <= current_step <= steps_total = 5,
\* steps_completed is the sequence 1..current_step, the status is Created,
\* Completed or Failed, and Completed implies current_step = steps_total.
C22_InstanceInvariants ==
    /\ 0 <= inst.current_step
    /\ inst.current_step <= inst.steps_total
    /\ inst.steps_total = 5
    /\ inst.steps_completed = [j \in 1..inst.current_step |-> j]
    /\ inst.status \in {Created, Completed, Failed}
    /\ inst.status = Completed => inst.current_step = inst.steps_total

\* ---------------------------------------------------------------------
\* C23 (DeploymentTemplate.py 61-95, 128-136)

SkeletonStep == tpc.at \notin {"idle", "returned"}

StepsNonDecreasing(logs) ==
    /\ \A n \in 1..(Len(logs) - 1) : logs[n].step <= logs[n + 1].step
    /\ logs # <<>> => logs[1].step = 0

\* C23: every step of execute_deployment() only appends to the log.  When
\* the hook of phase k is invoked, the last entry of the log is the
\* skeleton's Info entry naming phase k, stamped with the current step at
\* that moment, k-1.  The step stamps never decrease along the log, the
\* first is 0, and the last entry of a successful run is stamped 5.
C23_LogDiscipline ==
    [][SkeletonStep =>
         /\ IsPrefix(inst.logs, inst'.logs)
         /\ Len(inst'.logs) <= Len(inst.logs) + 1
         /\ StepsNonDecreasing(inst'.logs)
         /\ hookCalls' # hookCalls =>
              LET k == Len(hookCalls')
                  last == inst.logs[Len(inst.logs)]
              IN  /\ last.level = Info
                  /\ last.message = <<"phase", HookOrder[k]>>
                  /\ last.step = inst.current_step
                  /\ last.step = k - 1
         /\ (tpc'.at = "returned" /\ raised' = NoRaise) =>
              inst'.logs[Len(inst'.logs)].step = 5]_vars

\* C23 witness: a run that failed in phase 3 has returned; its log ends
\* with the Error entry stamped 2 and starts with an entry stamped 0.
C23_Witness ==
    /\ Returned /\ raised.phase = 3
    /\ inst.logs[1].step = 0
    /\ inst.logs[Len(inst.logs)] =
         [step |-> 2, message |-> <<"failed", raised.message>>,
          level |-> Error]

\* ---------------------------------------------------------------------
\* C24 (DeploymentTemplate.py 61-95, 196-245)

StandardSucceeded ==
    /\ Returned /\ ~HookRaised
    /\ inst.cls = "StandardDeployment"

CountEntries(logs, kind) ==
    Cardinality({n \in DOMAIN logs : logs[n].message[1] = kind})

Bracketed(logs) ==
    /\ logs[1].message = <<"start">>
    /\ logs[Len(logs)].message = <<"finished">>
    /\ CountEntries(logs, "start") = 1
    /\ CountEntries(logs, "finished") = 1

\* C24 as stated: the log of a successful Standard execution consists of
\* the 5 phase-start entries and the 2 bracketing entries, 7 entries in
\* all.
C24_SevenEntries ==
    StandardSucceeded =>
        /\ CountEntries(inst.logs, "phase") = 5
        /\ Bracketed(inst.logs)
        /\ Len(inst.logs) = 7

\* C24 amended: the log of a successful Standard execution holds the start
\* entry, then for each phase k = 1..5 the skeleton's phase-start entry
\* followed by the entry the Standard hook of that phase writes itself,
\* and last the finish entry: 5 phase-start entries, 2 bracketing entries
\* and 5 hook entries, 12 entries in all.
C24_TwelveEntries ==
    StandardSucceeded =>
        /\ CountEntries(inst.logs, "phase") = 5
        /\ Bracketed(inst.logs)
        /\ CountEntries(inst.logs, "StandardDeployment") = 5
        /\ Len(inst.logs) = 12
        /\ \A k \in 1..5 :
              /\ inst.logs[2 * k].message = <<"phase", HookOrder[k]>>
              /\ inst.logs[2 * k + 1].message =
                    <<"StandardDeployment", HookOrder[k]>>
              /\ inst.logs[2 * k + 1].level = Info

\* C24 witness: a Standard execution has returned Completed with a log of
\* twelve entries.
C24_Witness ==
    /\ StandardSucceeded
    /\ result.status = Completed
    /\ Len(inst.logs) = 12

\* ---------------------------------------------------------------------
\* C25 (DeploymentTemplate.py 106-120)

\* The attribute entries the hooks of phases 1..n have written.
WrittenBy(i, n) ==
    \A j \in 1..n :
        /\ PhaseKeys[j] \in DOMAIN i.attributes
        /\ i.attributes[PhaseKeys[j]] = <<i.cls, PhaseKeys[j]>>

\* C25: when the hook of phase k has raised, handling the failure undoes
\* nothing: the attributes (with the entries of the hooks of phases
\* 1..k-1), current_step, steps_completed = 1..k-1 and every log entry
\* written so far are after the except branch exactly what they were at
\* the moment the hook raised; the branch only sets the status and appends
\* one log entry.
C25_NoRollback ==
    [][tpc.at = "except" =>
         LET k == raised.phase IN
           /\ WrittenBy(inst, k - 1)
           /\ inst.steps_completed = [j \in 1..(k - 1) |-> j]
           /\ inst'.attributes = inst.attributes
           /\ inst'.steps_completed = inst.steps_completed
           /\ inst'.current_step = inst.current_step
           /\ IsPrefix(inst.logs, inst'.logs)
           /\ Len(inst'.logs) = Len(inst.logs) + 1]_vars

\* C25 witness: a run failed in phase 4 has returned Failed and still
\* carries the attribute entries and the completed steps of phases 1..3.
C25_Witness ==
    /\ Returned /\ raised.phase = 4
    /\ inst.status = Failed
    /\ WrittenBy(inst, 3)
    /\ inst.steps_completed = <<1, 2, 3>>

\* ---------------------------------------------------------------------
\* C26 (DeploymentService.py 86-93)

\* C26: the timestamps of the step a successful update_step_status
\* changes.  To InProgress: started_at becomes the time of the call if it
\* was unset and is kept otherwise; ended_at is kept.  To Completed:
\* started_at likewise, and ended_at becomes the time of the call whether
\* or not it was set.  To NotStarted or Failed: both are kept.
C26_TimestampRule ==
    [][StepUpdated =>
         LET st == ret'.req.status
             backfilled == IF OldStep.started_at = NoTime THEN now'
                           ELSE OldStep.started_at
         IN  /\ st = InProgress =>
                  /\ NewStep.started_at = backfilled
                  /\ NewStep.ended_at = OldStep.ended_at
             /\ st = Completed =>
                  /\ NewStep.started_at = backfilled
                  /\ NewStep.ended_at = now'
             /\ st \in {NotStarted, Failed} =>
                  /\ NewStep.started_at = OldStep.started_at
                  /\ NewStep.ended_at = OldStep.ended_at]_vars

\* C26 witness: a step that was completed some time after it started and
\* was then moved back to InProgress keeps both timestamps.
C26_Witness ==
    /\ ret.op = "update_step_status" /\ ret.result = "ok"
    /\ ret.req.status = InProgress
    /\ \E step \in StepsOf(deployments) :
          /\ step.status = InProgress
          /\ step.started_at # NoTime
          /\ step.ended_at # NoTime
          /\ step.started_at < step.ended_at
          /\ step.ended_at < now

\* ---------------------------------------------------------------------
\* C27 (DeploymentService.py 98-105; DeploymentRepository.py 117-122),
\* under SpecConc

Happened(p, kind) == \E n \in DOMAIN events : events[n] = Event(p, kind)

\* C27 as stated: within one update_step_status call the step list is
\* written before the aggregator writes the status, so whenever a call has
\* written the status its step list is already stored, and while a call
\* runs alone the stored status is never one computed from steps that are
\* not stored.
C27_StepsPersistedFirst ==
    \A p \in Procs :
        /\ Happened(p, "status") =>
              /\ Happened(p, "steps")
              /\ Pos(p, "steps") < Pos(p, "status")
        /\ (workers[p].pc \notin {"idle", "done"}
              /\ workers[Other(p)].pc = "idle") =>
              StatusMatchesIn(deployments, workers[p].id)

\* ---------------------------------------------------------------------
\* C28 (DeploymentService.py 98-105, 154-176; MongoHandler.py 72-79),
\* under SpecConc

BothOnOne ==
    /\ BothReturnedOk
    /\ workers["p1"].id = workers["p2"].id

LastStatusWriter ==
    CHOOSE p \in Procs : Pos(Other(p), "status") < Pos(p, "status")

\* C28: when two update_step_status calls on one deployment have both
\* returned, the stored status is the aggregate of the local step array of
\* the call that wrote the status last, and the stored step list is the
\* local array of the call that wrote the steps last.  These are two
\* separate writes, so the two need not be the same call, and then the
\* stored status need not be the aggregate of the stored steps; neither
\* call has a write left, so the stored document stays as it is.
C28_StatusAndStepsFromLastWriters ==
    BothOnOne =>
        LET id == workers["p1"].id IN
          /\ deployments[id].status =
                ExpectedStatus(workers[LastStatusWriter].steps)
          /\ deployments[id].steps = workers[LastWriter].steps
          /\ LastStatusWriter = LastWriter =>
                StatusMatchesIn(deployments, id)
          /\ \A p \in Procs : workers[p].pc = "done"

\* C28 witness: both calls have returned success and the stored status,
\* written by one of them, is not the aggregate of the stored steps,
\* written by the other.
C28_Witness ==
    /\ BothOnOne
    /\ LastStatusWriter # LastWriter
    /\ deployments[workers["p1"].id].status #
          ExpectedStatus(deployments[workers["p1"].id].steps)

\* ---------------------------------------------------------------------
\* C29 (DeploymentService.py 76-105; DeploymentRepository.py 86-124)

\* C29: a successful update_step_status changes one step only, the first
\* in list order that carries the requested name, also when later steps
\* carry the same name.  Every other step, the length of the list and the
\* order of the names, the feedbacks, the mission id and every other
\* deployment are as before.
C29_FirstMatchFrame ==
    [][StepUpdated =>
         LET id == ret'.id
             old == deployments[id]
             new == deployments'[id]
             target == TargetIndex(old.steps, ret'.req.step_name)
         IN  /\ Len(new.steps) = Len(old.steps)
             /\ \A j \in DOMAIN old.steps :
                   /\ new.steps[j].name = old.steps[j].name
                   /\ j # target => new.steps[j] = old.steps[j]
             /\ new.steps[target].status = ret'.req.status
             /\ new.steps[target].operator = ret'.req.operator
             /\ new.feedbacks = old.feedbacks
             /\ new.mission_id = old.mission_id
             /\ new.is_deleted = old.is_deleted
             /\ \A other \in StoreIds \ {id} :
                   deployments'[other] = deployments[other]]_vars

\* C29 witness: in a deployment whose two steps carry the same name, an
\* update by that name has changed the first and left the second as it
\* was created.
C29_Witness ==
    /\ ret.op = "update_step_status" /\ ret.result = "ok"
    /\ Len(deployments[ret.id].steps) = 2
    /\ deployments[ret.id].steps[1].name = deployments[ret.id].steps[2].name
    /\ deployments[ret.id].steps[1].operator = ret.req.operator
    /\ deployments[ret.id].steps[1].status = Failed
    /\ deployments[ret.id].steps[2] = FreshStep(ret.req.step_name)

\* ---------------------------------------------------------------------
\* C30 (DeploymentService.py 68-107, 154-176), under SpecRepeat

\* The step list one update_step_status call leaves, as a function of the
\* list it finds.
StepsAfter(steps, step_name, status, operator, remark, t) ==
    IF FirstMatch(steps, step_name) = 0 THEN steps
    ELSE [steps EXCEPT ![FirstMatch(steps, step_name)] =
             ApplyStepUpdate(@, status, operator, remark, t)]

\* A step list with everything but names and statuses put to one value.
StatusesOnly(steps) ==
    [j \in DOMAIN steps |-> [FreshStep(steps[j].name) EXCEPT
                                !.status = steps[j].status]]

OneMoreUpdate(lists) ==
    lists \cup {StatusesOnly(StepsAfter(l, step_name, status, "op1", None, 0)) :
                    l \in lists, step_name \in StepNames,
                    status \in StepStatuses}

RECURSIVE AfterUpdates(_, _)
AfterUpdates(lists, n) ==
    IF n = 0 THEN lists ELSE AfterUpdates(OneMoreUpdate(lists), n - 1)

\* The aggregate statuses some sequence of step updates leads to.  A list
\* of n steps has at most n positions to change, so n updates reach every
\* list that can be reached at all.
ReachableStatuses(steps) ==
    {new_status(l) : l \in AfterUpdates({StatusesOnly(steps)}, Len(steps))}

DistinctNames(steps) ==
    \A i, j \in DOMAIN steps : i # j => steps[i].name # steps[j].name

\* One update per step name, each to the same status.  Updates keep the
\* names, so the step an update by name reaches is the same before and
\* after the others: the first of its name.
AllMovedTo(steps, status, t) ==
    [j \in DOMAIN steps |->
        IF FirstMatch(steps, steps[j].name) = j
        THEN ApplyStepUpdate(steps[j], status, "op1", None, t)
        ELSE steps[j]]

NoStep(steps, status) == \A i \in DOMAIN steps : steps[i].status # status

\* The last two calls were successful step updates of one deployment.
TwoUpdates ==
    /\ prev.op = "update_step_status" /\ prev.result = "ok"
    /\ ret.op = "update_step_status" /\ ret.result = "ok"
    /\ ret.id = prev.id

====
